---- MODULE Spec2Model ----
(***************************************************************************)
(* Model of the file-and-identity correlation pipeline of the Azumi intake *)
(* bot: the per-user pending-file buffers of the Telegram and WhatsApp     *)
(* webhook handlers, the phone-keyed shared file store, the phone          *)
(* normalizers, and the submit-candidate-application tool that consumes    *)
(* the store.  Strings are sequences of one-character strings, so that the *)
(* regular expressions of the source are computed, not assumed.            *)
(***************************************************************************)
EXTENDS Integers, Sequences, FiniteSets, TLC

(***************************************************************************)
(* Characters and string helpers                                           *)
(***************************************************************************)

\* JavaScript's \s, as far as the modelled inputs use it.
Whitespace == {" ", "\n", "\t"}

Digits == {"0", "1", "2", "3", "4", "5", "6", "7", "8", "9"}

\* The character class [\s\-\(\)\.] of every normalizePhone.
Separators == Whitespace \cup {"-", "(", ")", "."}

\* The character class [0-9\s\-\(\)\.] of extractPhoneFromMessage.
PhoneBodyChars == Digits \cup Separators

IsSeparator(c) == c \in Separators

StartsWith(s, prefix) ==
    /\ Len(s) >= Len(prefix)
    /\ SubSeq(s, 1, Len(prefix)) = prefix

DropFirst(s, n) == SubSeq(s, n + 1, Len(s))

RECURSIVE TrimStart(_)
TrimStart(s) ==
    IF s # <<>> /\ Head(s) \in Whitespace THEN TrimStart(Tail(s)) ELSE s

RECURSIVE TrimEnd(_)
TrimEnd(s) ==
    IF s # <<>> /\ s[Len(s)] \in Whitespace
    THEN TrimEnd(SubSeq(s, 1, Len(s) - 1))
    ELSE s

\* String.prototype.trim
Trim(s) == TrimEnd(TrimStart(s))

WhatsAppPrefix == <<"w", "h", "a", "t", "s", "a", "p", "p", ":">>

(***************************************************************************)
(* Phone normalizers                                                       *)
(***************************************************************************)

\* .replace(/[\s\-\(\)\.]/g, '')
StripSeparators(s) == SelectSeq(s, LAMBDA c : ~IsSeparator(c))

\* .replace(/^00/, '+')
ReplaceLeadingDoubleZero(s) ==
    IF StartsWith(s, <<"0", "0">>) THEN <<"+">> \o DropFirst(s, 2) ELSE s

\* .replace(/^whatsapp:/, '')
StripWhatsAppPrefix(s) ==
    IF StartsWith(s, WhatsAppPrefix) THEN DropFirst(s, Len(WhatsAppPrefix)) ELSE s

\* A normalizer that also writes a leading 8 as +7, which the source's is not.
normalizePhoneEightAsPlus7(phone) ==
    LET s == ReplaceLeadingDoubleZero(StripSeparators(phone))
    IN  IF StartsWith(s, <<"8">>) THEN <<"+", "7">> \o DropFirst(s, 1) ELSE s

\* A normalizer without .replace(/^00/, '+'), which the source's has.
normalizePhoneKeepDoubleZero(phone) == StripSeparators(phone)

\* normalizePhone of telegram-webhook.ts (and the same expression inline in
\* its storeFilesByPhone).
normalizePhone(phone) == ReplaceLeadingDoubleZero(StripSeparators(phone))

\* normalizePhone of whatsapp-webhook.ts: the prefix is stripped first.
normalizePhoneWhatsApp(phone) ==
    ReplaceLeadingDoubleZero(StripSeparators(StripWhatsAppPrefix(phone)))

\* normalizePhone of azumi-agent.ts and candidate-intake-tool.ts.
normalizePhoneTool(phone) == ReplaceLeadingDoubleZero(StripSeparators(phone))

\* normalizePhone of db-pg.ts.
normalizePhoneDb(phone) == ReplaceLeadingDoubleZero(StripSeparators(phone))

NormalizerVariants == {"telegram", "whatsapp", "tool", "db"}

NormalizeBy(variant, phone) ==
    CASE variant = "telegram" -> normalizePhone(phone)
      [] variant = "whatsapp" -> normalizePhoneWhatsApp(phone)
      [] variant = "tool"     -> normalizePhoneTool(phone)
      [] variant = "db"       -> normalizePhoneDb(phone)

(***************************************************************************)
(* extractPhoneFromMessage: first match of /\+?[0-9][0-9\s\-\(\)\.]{8,}/,  *)
(* trimmed                                                                 *)
(***************************************************************************)

NoPhone == <<"<null>">>

\* Length of the longest run of [0-9\s\-\(\)\.] starting at index i.
RECURSIVE BodyRun(_, _)
BodyRun(s, i) ==
    IF i <= Len(s) /\ s[i] \in PhoneBodyChars THEN 1 + BodyRun(s, i + 1) ELSE 0

\* Length of the (greedy) match that starts exactly at index i, 0 if none.
MatchLengthAt(s, i) ==
    IF s[i] = "+"
    THEN IF i + 1 <= Len(s) /\ s[i + 1] \in Digits /\ BodyRun(s, i + 2) >= 8
         THEN 2 + BodyRun(s, i + 2)
         ELSE 0
    ELSE IF s[i] \in Digits /\ BodyRun(s, i + 1) >= 8
         THEN 1 + BodyRun(s, i + 1)
         ELSE 0

extractPhoneFromMessage(text) ==
    IF Trim(text) = <<>>
    THEN NoPhone
    ELSE LET starts == {i \in 1..Len(text) : MatchLengthAt(text, i) > 0}
         IN  IF starts = {}
             THEN NoPhone
             ELSE LET i == CHOOSE j \in starts : \A k \in starts : j <= k
                  IN  Trim(SubSeq(text, i, i + MatchLengthAt(text, i) - 1))

\* extractPhoneFromWhatsApp: the From field without its prefix.
extractPhoneFromWhatsApp(from) == StripWhatsAppPrefix(from)

(***************************************************************************)
(* Inputs of the normalizer check: strings of at most MaxTokens tokens,    *)
(* a token being one character or the whole word "whatsapp:"               *)
(***************************************************************************)

MaxTokens == 3

NormTokens ==
    {<<"0">>, <<"7">>, <<"+">>, <<" ">>, <<"-">>, <<".">>, <<"(">>, WhatsAppPrefix}

RECURSIVE TokenStrings(_)
TokenStrings(n) ==
    IF n = 0
    THEN {<<>>}
    ELSE LET shorter == TokenStrings(n - 1)
         IN  shorter \cup {s \o t : s \in shorter, t \in NormTokens}

NormInputs == TokenStrings(MaxTokens)

\* The inputs made of single characters.
PairInputs == {s \in NormInputs : Len(s) <= MaxTokens}

\* The strings that differ from x by one inserted separator, or by a leading
\* 00 written for the leading +.
FormatEdits(x) ==
    {SubSeq(x, 1, i) \o <<c>> \o SubSeq(x, i + 1, Len(x)) : i \in 0..Len(x), c \in Separators}
        \cup (IF StartsWith(x, <<"+">>) THEN {<<"0", "0">> \o Tail(x)} ELSE {})

(***************************************************************************)
(* Users, inbound texts and attachments                                    *)
(***************************************************************************)

\* Telegram users are keyed by their numeric id, WhatsApp users by the phone
\* of their From field: the two webhook modules keep separate userContexts.
TelegramUsers == {"t1", "t2"}

WhatsAppUsers == {"w1"}

Users == TelegramUsers \cup WhatsAppUsers

\* message.From of the WhatsApp user.
WaFrom ==
    <<"w", "h", "a", "t", "s", "a", "p", "p", ":",
      "+", "7", "9", "9", "9", "1", "2", "3", "4", "5", "6", "7">>

PhonePlus7 ==
    <<"+", "7", " ", "9", "9", "9", " ", "1", "2", "3", " ", "4", "5", " ", "6", "7">>

PhoneEight == <<"8", "9", "9", "9", "1", "2", "3", "4", "5", "6", "7">>

PhoneDoubleZero ==
    <<"0", "0", " ", "1", " ", "2", "0", "2", " ", "5", "5", "5", " ", "0", "1", "0", "1">>

\* A phone made only of separators.
BlankPhone == <<" ", "-">>

KeyPlus7 == <<"+", "7", "9", "9", "9", "1", "2", "3", "4", "5", "6", "7">>

KeyEight == <<"8", "9", "9", "9", "1", "2", "3", "4", "5", "6", "7">>

KeyUS == <<"+", "1", "2", "0", "2", "5", "5", "5", "0", "1", "0", "1">>

NoText == "none"

\* The characters of each inbound text.
TextChars(t) ==
    CASE t = "hello" -> <<"H", "e", "l", "l", "o">>
      [] t = "eight" ->
            <<"M", "y", " ", "n", "u", "m", "b", "e", "r", " ", "i", "s", " ",
              "8", "9", "9", "9", "1", "2", "3", "4", "5", "6", "7">>
      [] t = "plus7" ->
            <<"C", "a", "l", "l", " ", "+", "7", " ", "9", "9", "9", " ",
              "1", "2", "3", " ", "4", "5", " ", "6", "7", " ",
              "p", "l", "e", "a", "s", "e">>
      [] t = "doublezero" ->
            <<"t", "e", "l", ":", " ", "0", "0", " ", "1", " ", "2", "0", "2", " ",
              "5", "5", "5", " ", "0", "1", "0", "1", ".">>
      [] OTHER -> <<>>

\* The texts each user may send, and the captions they may put on a file.
TextsOf(u) ==
    CASE u = "t1" -> {"eight", "plus7"}
      [] u = "t2" -> {}
      [] u = "w1" -> {"hello"}

CaptionsOf(u) ==
    CASE u = "t1" -> {NoText}
      [] u = "t2" -> {"doublezero"}
      [] u = "w1" -> {NoText, "eight"}

\* The phone strings the agent may put into a tool call of a user's thread:
\* the user's own number, in the formats the conversation may hold.
ToolPhonesOf(u) ==
    CASE u = "t1" -> {KeyPlus7, PhoneEight}
      [] u = "t2" -> {PhoneDoubleZero}
      [] u = "w1" -> {KeyPlus7}

\* Every phone string a user gives: in text, through the agent's tool calls
\* or, on WhatsApp, as the sender number.
PhonesGivenBy(u) ==
    ToolPhonesOf(u)
        \cup {extractPhoneFromMessage(TextChars(t)) : t \in TextsOf(u) \cup CaptionsOf(u)}
        \cup (IF u \in WhatsAppUsers THEN {extractPhoneFromWhatsApp(WaFrom)} ELSE {})

\* const MAX_DOWNLOAD_SIZE_BYTES = 18 * 1024 * 1024
MAX_DOWNLOAD_SIZE_BYTES == 18 * 1024 * 1024

\* An attachment as extractFileFromMessage reports it: type, the MIME class
\* of fileType, and fileSize (bytes; Twilio reports none, so the WhatsApp
\* handler never sees it).
PdfSmall == [type |-> "document", mime |-> "pdf", bytes |-> 1024]

VideoSmall == [type |-> "video", mime |-> "video", bytes |-> MAX_DOWNLOAD_SIZE_BYTES]

VideoLarge == [type |-> "video", mime |-> "video", bytes |-> MAX_DOWNLOAD_SIZE_BYTES + 1]

NoAttachment == [type |-> "none", mime |-> "none", bytes |-> 0]

AttachmentsOf(u) ==
    CASE u = "t1" -> {PdfSmall, VideoSmall, VideoLarge}
      [] u = "t2" -> {PdfSmall}
      [] u = "w1" -> {VideoLarge}

\* The branch of handleFileUpload that an attachment takes.
Classify(att) ==
    IF att.type = "video" \/ att.mime = "video"
    THEN "video"
    ELSE IF att.type = "document" \/ att.mime \in {"pdf", "word", "document"}
         THEN "resume"
         ELSE IF att.type \in {"photo", "image"} THEN "photo" ELSE "unknown"

(***************************************************************************)
(* uploadFileFromUrl of google-drive.ts                                    *)
(***************************************************************************)

\* What the environment variables hold: OAuth client and refresh token, a
\* service account JSON that parses, one (longer than 50 characters) that
\* does not, a key file path, or none of them.
DriveCredentials == {"oauth", "json", "unparsable", "keyfile", "none"}

\* The environment of one upload: the credentials, whether
\* GOOGLE_DRIVE_FOLDER_ID is set, whether the download of the source URL
\* gives a non-empty body, and whether the Drive calls succeed.
DriveEnvs ==
    [credentials : DriveCredentials, folder : BOOLEAN, download : BOOLEAN, drive : BOOLEAN]

getAuth(credentials) ==
    CASE credentials \in {"oauth", "json", "keyfile"} -> "auth"
      [] credentials = "unparsable" -> "throws"
      [] OTHER -> "null"

\* "uploaded" for an UploadResult, "null", or "throws".
uploadFileFromUrl(env) ==
    IF getAuth(env.credentials) = "throws"
    THEN "throws"
    ELSE IF getAuth(env.credentials) = "null" \/ ~env.folder \/ ~env.download \/ ~env.drive
         THEN "null"
         ELSE "uploaded"

(***************************************************************************)
(* Maps (JavaScript Map: get, set, delete)                                 *)
(***************************************************************************)

\* A file reference is modelled by its fileId: <<"event", n>> for the
\* attachment of inbound event n, <<"tool", n>> for one the agent passes.
Undefined == <<"undefined", 0>>

\* What Map.get gives for a missing key (the store never holds an entry with
\* neither file: storeFilesByPhone writes only entries that hold one).
NoEntry == [resumeFile |-> Undefined, introVideoFile |-> Undefined]

MapGet(map, key) == IF key \in DOMAIN map THEN map[key] ELSE NoEntry

MapSet(map, key, value) ==
    [k \in DOMAIN map \cup {key} |-> IF k = key THEN value ELSE map[k]]

MapDelete(map, key) == [k \in DOMAIN map \ {key} |-> map[k]]

EmptyMap == [k \in {} |-> NoEntry]

EmptyCount == [k \in {} |-> 0]

(***************************************************************************)
(* State                                                                   *)
(***************************************************************************)

MaxEvents == 3

MaxSubmits == 2

NoContext == [pendingFiles |-> <<>>, exists |-> FALSE]

\* response.toolResults of a gateway call, as far as handleTextMessage reads
\* it (the result of the last tool): here, of one in which no tool has
\* returned.
NoResult == [kind |-> "none", success |-> FALSE]

VARIABLES
    userContexts,      \* user -> context {pendingFiles}, or NoContext
    fileStoreByPhone,  \* Map: normalized phone -> {resumeFile?, introVideoFile?}
    handlers,          \* the webhook handlers in flight, each at an await
    submissions,       \* the submit-candidate-application executions in flight
    nextEvent,         \* id of the next inbound event
    nSubmits,          \* submissions started so far
    crmFiles,          \* history: <<normalized phone, fileId>> -> number of leads that
                       \* createCandidateLead was given this buffered file for
    attachments,       \* history: file event -> its sender and actual size
    consumed,          \* history: keys read by a submission and not published since
    acks,              \* history: inbound event -> responses its HTTP request was sent
    candidates,        \* the candidates table: normalized phone -> number of rows
    rejected,          \* history: events whose webhook handler's promise rejected
    lastCalls,         \* history: the database and CRM calls of the execution that
                       \* ended last, in the order they were made
    normVariant,   \* which normalizePhone is being applied
    normInput,     \* its argument
    normOnce,      \* normalizePhone(x)
    normTwice,     \* normalizePhone(normalizePhone(x))
    normOther,     \* a second argument y, written differently from x
    normOtherOnce, \* normalizePhone(y)
    normStage,     \* 0: nothing applied, 1: applied once, 2: applied twice,
                   \* 3: applied to x and to y
    sendText,      \* the text sendLongMessage was called with
    sendRemaining, \* its variable remaining
    sendChunks,    \* the chunks passed to the transport so far, in order
    sendPc,        \* "idle", or where the call is: "loop", "send" (awaiting the
                   \* transport), "delay" (awaiting the timer), "done"
    now,           \* Date.now()
    lastMessageTime, \* user -> context.lastMessageTime (0 without a context)
    lastCleanup,   \* the call of cleanupOldContexts made by the last step, if
                   \* it was one: its module's users, maxAgeMs, and the
                   \* users whose session it deleted
    tokenStore,    \* token -> its UploadToken, as far as the routes read it
    webUploadsByUserId, \* user -> the entries pushed for the user
    requests,      \* the POST /upload/:token requests in flight
    answers,       \* request -> its token, its method, whether an upload of
                   \* the token was stored when it arrived, and the status
                   \* it was answered with (0 while it is in flight)
    nextRequest    \* the number of the next request

normVars ==
    <<normVariant, normInput, normOnce, normTwice, normOther, normOtherOnce, normStage>>

botVars ==
    <<userContexts, fileStoreByPhone, handlers, submissions, nextEvent, nSubmits,
      crmFiles, attachments, consumed, acks, candidates, rejected,
      lastCalls>>

sendVars == <<sendText, sendRemaining, sendChunks, sendPc>>

cleanupVars == <<now, lastMessageTime, lastCleanup>>

uploadVars == <<tokenStore, webUploadsByUserId, requests, answers, nextRequest>>

auxVars == <<sendVars, cleanupVars, uploadVars>>

vars == <<botVars, normVars, auxVars>>

BotIdle ==
    /\ userContexts = [u \in Users |-> NoContext]
    /\ fileStoreByPhone = EmptyMap
    /\ handlers = {}
    /\ submissions = {}
    /\ nextEvent = 1
    /\ nSubmits = 0
    /\ crmFiles = EmptyCount
    /\ attachments = EmptyMap
    /\ consumed = {}
    /\ acks = EmptyCount
    /\ candidates = EmptyCount
    /\ rejected = {}
    /\ lastCalls = <<>>

(***************************************************************************)
(* storeFilesByPhone                                                       *)
(***************************************************************************)

\* The last pending file of a type, which the source's loop does not keep.
LastOfType(pendingFiles, type) ==
    LET matching == SelectSeq(pendingFiles, LAMBDA f : f.type = type)
    IN  IF matching = <<>> THEN Undefined ELSE matching[Len(matching)].fileId

\* The first pending file of a type, as the entry keeps it (fileName,
\* fileType, fileUrl and duration are copied along with fileId and are left
\* out).
FirstOfType(pendingFiles, type) ==
    LET matching == SelectSeq(pendingFiles, LAMBDA f : f.type = type)
    IN  IF matching = <<>> THEN Undefined ELSE matching[1].fileId

\* The FileStoreEntry that the loop over context.pendingFiles builds.
EntryOf(pendingFiles) ==
    [resumeFile |-> FirstOfType(pendingFiles, "resume"),
     introVideoFile |-> FirstOfType(pendingFiles, "video")]

\* Whether a call of storeFilesByPhone for this user writes the store.
StoresFiles(contexts, userId) ==
    /\ contexts[userId].exists
    /\ contexts[userId].pendingFiles # <<>>
    /\ EntryOf(contexts[userId].pendingFiles) # NoEntry

\* A publish that reads one buffer shared by all users, which the source's
\* does not.
storeFilesFromSharedBuffer(store, contexts, phone, userId) ==
    IF StoresFiles(contexts, userId)
    THEN MapSet(store, ReplaceLeadingDoubleZero(StripSeparators(phone)),
                EntryOf(contexts["t1"].pendingFiles \o contexts["t2"].pendingFiles
                            \o contexts["w1"].pendingFiles))
    ELSE store

\* storeFilesByPhone of telegram-webhook.ts: the store after the call.
storeFilesByPhone(store, contexts, phone, userId) ==
    IF StoresFiles(contexts, userId)
    THEN MapSet(store, normalizePhone(phone), EntryOf(contexts[userId].pendingFiles))
    ELSE store

\* storeFilesByPhone of whatsapp-webhook.ts.
storeFilesByPhoneWhatsApp(store, contexts, phone, userId) ==
    IF StoresFiles(contexts, userId)
    THEN MapSet(store, normalizePhoneWhatsApp(phone),
                EntryOf(contexts[userId].pendingFiles))
    ELSE store

StoreFilesFor(store, contexts, phone, userId) ==
    IF userId \in WhatsAppUsers
    THEN storeFilesByPhoneWhatsApp(store, contexts, phone, userId)
    ELSE storeFilesByPhone(store, contexts, phone, userId)

\* The key such a call writes, if it writes.
KeyFor(phone, userId) ==
    IF userId \in WhatsAppUsers THEN normalizePhoneWhatsApp(phone) ELSE normalizePhone(phone)

WrittenKeys(contexts, phone, userId) ==
    IF StoresFiles(contexts, userId) THEN {KeyFor(phone, userId)} ELSE {}

(***************************************************************************)
(* handleTextMessage, up to its await of agent.generate                    *)
(***************************************************************************)

\* The prompt built from a caption: "[Candidate just sent their <label>.]
\* They also wrote: <caption>" (the file name, when present, sits inside the
\* brackets and is left out).
CaptionPrompt(att, caption) ==
    <<"[", "C", "a", "n", "d", "i", "d", "a", "t", "e", " ", "j", "u", "s", "t", " ",
      "s", "e", "n", "t", " ", "t", "h", "e", "i", "r", " ">>
    \o (IF att.type = "video"
        THEN <<"i", "n", "t", "r", "o", " ", "v", "i", "d", "e", "o">>
        ELSE IF att.type = "document"
             THEN <<"r", "e", "s", "u", "m", "e">>
             ELSE <<"f", "i", "l", "e">>)
    \o <<".", "]", " ", "T", "h", "e", "y", " ", "a", "l", "s", "o", " ",
         "w", "r", "o", "t", "e", ":", " ">>
    \o Trim(TextChars(caption))

\* The text handleTextMessage is called with for an event.
PromptOf(h) ==
    IF h.att = NoAttachment THEN TextChars(h.text) ELSE CaptionPrompt(h.att, h.text)

\* The phone that the pre-store of handleTextMessage publishes under:
\* the one found in the text, else (WhatsApp only) the sender's.
\* extractPhoneFromMessage on every prompt the modelled events give,
\* computed once.
AllPrompts ==
    {TextChars(t) : t \in {"hello", "eight", "plus7", "doublezero"}}
        \cup {CaptionPrompt(a, c) : a \in {PdfSmall, VideoSmall, VideoLarge},
                                    c \in {"hello", "eight", "plus7", "doublezero"}}

PhoneInPrompt == [p \in AllPrompts |-> extractPhoneFromMessage(p)]

PreStorePhone(userId, prompt) ==
    LET phoneFromMessage == PhoneInPrompt[prompt]
    IN  IF phoneFromMessage # NoPhone
        THEN phoneFromMessage
        ELSE IF userId \in WhatsAppUsers
             THEN extractPhoneFromWhatsApp(WaFrom)
             ELSE NoPhone

\* A handleTextMessage without the pre-store, which the source's has.
SkipPreStore(store, contexts, userId, prompt) == store

\* "Pre-store files by phone BEFORE agent runs": the store when
\* agent.generate is called.
PreStore(store, contexts, userId, prompt) ==
    IF contexts[userId].exists /\ contexts[userId].pendingFiles # <<>>
          /\ PreStorePhone(userId, prompt) # NoPhone
    THEN StoreFilesFor(store, contexts, PreStorePhone(userId, prompt), userId)
    ELSE store

PreStoreKeys(contexts, userId, prompt) ==
    IF contexts[userId].exists /\ contexts[userId].pendingFiles # <<>>
          /\ PreStorePhone(userId, prompt) # NoPhone
    THEN WrittenKeys(contexts, PreStorePhone(userId, prompt), userId)
    ELSE {}

\* The phone that handleTextMessage publishes under after the reply is sent:
\* the one of the response, else (WhatsApp only) the sender's.
PostStorePhone(userId, respPhone) ==
    IF respPhone # NoPhone
    THEN respPhone
    ELSE IF userId \in WhatsAppUsers
         THEN extractPhoneFromWhatsApp(WaFrom)
         ELSE NoPhone

PostStore(store, contexts, userId, respPhone) ==
    IF PostStorePhone(userId, respPhone) # NoPhone
    THEN StoreFilesFor(store, contexts, PostStorePhone(userId, respPhone), userId)
    ELSE store

PostStoreKeys(contexts, userId, respPhone) ==
    IF PostStorePhone(userId, respPhone) # NoPhone
    THEN WrittenKeys(contexts, PostStorePhone(userId, respPhone), userId)
    ELSE {}

\* let context = userContexts.get(userId); if (!context) { ... set ... }
EnsureContext(contexts, userId) ==
    IF contexts[userId].exists
    THEN contexts
    ELSE [contexts EXCEPT ![userId] = [pendingFiles |-> <<>>, exists |-> TRUE]]

(***************************************************************************)
(* submit-candidate-application                                            *)
(***************************************************************************)

ExplicitResume == <<"tool", 1>>

ExplicitVideo == <<"tool", 2>>

\* data.resumeFile and data.introVideoFile of a tool call: each optional.
ExplicitInputs ==
    [resumeFile : {Undefined, ExplicitResume}, introVideoFile : {Undefined, ExplicitVideo}]

\* A merge that prefers the stored file, which the source's does not.
PreferStored(explicit, stored) == IF stored # Undefined THEN stored ELSE explicit

\* A read of the store that leaves the entry, which the source's does not.
KeepStore(store, key) == store

\* let finalFile = data.file; if (!finalFile && storedFiles.file) finalFile = storedFiles.file
ResolveFile(explicit, stored) == IF explicit # Undefined THEN explicit ELSE stored

\* if (storedFiles) { ...; fileStoreByPhone.delete(normalizedPhone) }
ConsumeStore(store, key) == IF key \in DOMAIN store THEN MapDelete(store, key) ELSE store

(***************************************************************************)
(* The reply of handleTextMessage                                          *)
(***************************************************************************)

\* The fixed texts of handleTextMessage and of the webhook handler's catch.
RecordsFoundMessage ==
    <<"I", "'", "v", "e", " ", "c", "h", "e", "c", "k", "e", "d", " ", "o",
      "u", "r", " ", "r", "e", "c", "o", "r", "d", "s", ".", " ", "H", "o",
      "w", " ", "c", "a", "n", " ", "I", " ", "h", "e", "l", "p", " ", "y",
      "o", "u", " ", "t", "o", "d", "a", "y", "?">>

NoRecordMessage ==
    <<"I", " ", "d", "o", "n", "'", "t", " ", "s", "e", "e", " ", "a", "n",
      " ", "e", "x", "i", "s", "t", "i", "n", "g", " ", "a", "p", "p", "l",
      "i", "c", "a", "t", "i", "o", "n", ".", " ", "L", "e", "t", "'", "s",
      " ", "s", "t", "a", "r", "t", " ", "a", " ", "n", "e", "w", " ", "o",
      "n", "e", "!">>

SubmittedMessage ==
    <<"T", "h", "a", "n", "k", " ", "y", "o", "u", "!", " ", "Y", "o", "u",
      "r", " ", "a", "p", "p", "l", "i", "c", "a", "t", "i", "o", "n", " ",
      "h", "a", "s", " ", "b", "e", "e", "n", " ", "s", "u", "b", "m", "i",
      "t", "t", "e", "d", ".", " ", "O", "u", "r", " ", "t", "e", "a", "m",
      " ", "w", "i", "l", "l", " ", "r", "e", "v", "i", "e", "w", " ", "i",
      "t", " ", "a", "n", "d", " ", "g", "e", "t", " ", "b", "a", "c", "k",
      " ", "t", "o", " ", "y", "o", "u", " ", "s", "o", "o", "n", ".">>

NotedInformationMessage ==
    <<"I", "'", "v", "e", " ", "n", "o", "t", "e", "d", " ", "y", "o", "u",
      "r", " ", "i", "n", "f", "o", "r", "m", "a", "t", "i", "o", "n", ".",
      " ", "I", "s", " ", "t", "h", "e", "r", "e", " ", "a", "n", "y", "t",
      "h", "i", "n", "g", " ", "e", "l", "s", "e", " ", "y", "o", "u", "'",
      "d", " ", "l", "i", "k", "e", " ", "t", "o", " ", "a", "d", "d", "?">>

RequirementsMessage ==
    <<"I", "'", "v", "e", " ", "c", "h", "e", "c", "k", "e", "d", " ", "t",
      "h", "e", " ", "r", "e", "q", "u", "i", "r", "e", "m", "e", "n", "t",
      "s", " ", "f", "o", "r", " ", "y", "o", "u", ".", " ", "D", "o", " ",
      "y", "o", "u", " ", "h", "a", "v", "e", " ", "a", "n", "y", " ", "q",
      "u", "e", "s", "t", "i", "o", "n", "s", " ", "a", "b", "o", "u", "t",
      " ", "t", "h", "e", "m", "?">>

CallbackMessage ==
    <<"I", "'", "v", "e", " ", "s", "c", "h", "e", "d", "u", "l", "e", "d",
      " ", "a", " ", "c", "a", "l", "l", "b", "a", "c", "k", " ", "f", "o",
      "r", " ", "y", "o", "u", ".", " ", "A", " ", "r", "e", "c", "r", "u",
      "i", "t", "e", "r", " ", "w", "i", "l", "l", " ", "c", "o", "n", "t",
      "a", "c", "t", " ", "y", "o", "u", " ", "s", "o", "o", "n", ".">>

ProcessedMessage ==
    <<"I", "'", "v", "e", " ", "p", "r", "o", "c", "e", "s", "s", "e", "d",
      " ", "t", "h", "a", "t", ".", " ", "I", "s", " ", "t", "h", "e", "r",
      "e", " ", "a", "n", "y", "t", "h", "i", "n", "g", " ", "e", "l", "s",
      "e", " ", "y", "o", "u", "'", "d", " ", "l", "i", "k", "e", " ", "t",
      "o", " ", "a", "d", "d", ",", " ", "o", "r", " ", "s", "h", "a", "l",
      "l", " ", "w", "e", " ", "c", "o", "n", "t", "i", "n", "u", "e", " ",
      "w", "i", "t", "h", " ", "y", "o", "u", "r", " ", "a", "p", "p", "l",
      "i", "c", "a", "t", "i", "o", "n", "?">>

NotedMessage ==
    <<"I", "'", "v", "e", " ", "n", "o", "t", "e", "d", " ", "t", "h", "a",
      "t", ".", " ", "I", "s", " ", "t", "h", "e", "r", "e", " ", "a", "n",
      "y", "t", "h", "i", "n", "g", " ", "e", "l", "s", "e", " ", "y", "o",
      "u", "'", "d", " ", "l", "i", "k", "e", " ", "t", "o", " ", "a", "d",
      "d", ",", " ", "o", "r", " ", "s", "h", "a", "l", "l", " ", "w", "e",
      " ", "c", "o", "n", "t", "i", "n", "u", "e", " ", "w", "i", "t", "h",
      " ", "y", "o", "u", "r", " ", "a", "p", "p", "l", "i", "c", "a", "t",
      "i", "o", "n", "?">>

UnableMessage ==
    <<"I", " ", "a", "p", "o", "l", "o", "g", "i", "z", "e", ",", " ", "I",
      " ", "w", "a", "s", " ", "u", "n", "a", "b", "l", "e", " ", "t", "o",
      " ", "g", "e", "n", "e", "r", "a", "t", "e", " ", "a", " ", "r", "e",
      "s", "p", "o", "n", "s", "e", ".", " ", "P", "l", "e", "a", "s", "e",
      " ", "t", "r", "y", " ", "a", "g", "a", "i", "n", ".">>

ApologyMessage ==
    <<"I", " ", "a", "p", "o", "l", "o", "g", "i", "z", "e", ",", " ", "b",
      "u", "t", " ", "I", " ", "e", "n", "c", "o", "u", "n", "t", "e", "r",
      "e", "d", " ", "a", "n", " ", "e", "r", "r", "o", "r", " ", "p", "r",
      "o", "c", "e", "s", "s", "i", "n", "g", " ", "y", "o", "u", "r", " ",
      "m", "e", "s", "s", "a", "g", "e", ".", " ", "P", "l", "e", "a", "s",
      "e", " ", "t", "r", "y", " ", "a", "g", "a", "i", "n", " ", "o", "r",
      " ", "c", "o", "n", "t", "a", "c", "t", " ", "u", "s", " ", "d", "i",
      "r", "e", "c", "t", "l", "y", " ", "a", "t", " ", "+", "7", " ", "9",
      "6", "8", " ", "5", "9", "9", " ", "9", "3", " ", "6", "0", ".">>

\* Length of the longest run of [^*] starting at index i.
NonStarRun(s, i) ==
    LET stars == {j \in i..Len(s) : s[j] = "*"}
    IN  IF stars = {}
        THEN IF i <= Len(s) THEN Len(s) - i + 1 ELSE 0
        ELSE (CHOOSE j \in stars : \A k \in stars : j <= k) - i

\* .replace(/\*\*([^*]+)\*\*/g, '$1')
RECURSIVE ReplaceBold(_)
ReplaceBold(s) ==
    IF s = <<>>
    THEN <<>>
    ELSE LET n == NonStarRun(s, 3)
         IN  IF /\ Len(s) >= n + 4
                /\ s[1] = "*" /\ s[2] = "*"
                /\ n >= 1
                /\ s[n + 3] = "*" /\ s[n + 4] = "*"
             THEN SubSeq(s, 3, n + 2) \o ReplaceBold(DropFirst(s, n + 4))
             ELSE LET skip == IF s[1] = "*" THEN 1 ELSE NonStarRun(s, 1)
                  IN  SubSeq(s, 1, skip) \o ReplaceBold(DropFirst(s, skip))

\* .replace(/\*([^*]+)\*/g, '$1')
RECURSIVE ReplaceItalic(_)
ReplaceItalic(s) ==
    IF s = <<>>
    THEN <<>>
    ELSE LET n == NonStarRun(s, 2)
         IN  IF /\ Len(s) >= n + 2
                /\ s[1] = "*"
                /\ n >= 1
                /\ s[n + 2] = "*"
             THEN SubSeq(s, 2, n + 1) \o ReplaceItalic(DropFirst(s, n + 2))
             ELSE LET skip == IF s[1] = "*" THEN 1 ELSE NonStarRun(s, 1)
                  IN  SubSeq(s, 1, skip) \o ReplaceItalic(DropFirst(s, skip))

\* What the agent writes into response.text, response.reasoningText or the
\* text of a step: nothing, blanks, plain text, or text with Markdown marks.
OkText == <<"O", "k">>

BlankText == <<" ", "\n">>

BoldText == <<"*", "*", "O", "k", "*", "*", " ", "*", "o", "k", "*">>

StarredBlank == <<"*", " ", "*">>

ResponseTexts == {<<>>, BlankText, OkText, BoldText, StarredBlank}

\* A step of response.steps: its text, and what its content is (undefined, a
\* string or an array of parts).
StepShapes ==
    [text : {<<>>, OkText}, content : {"undefined", "array"}]
        \cup {[text |-> <<>>, content |-> "string"]}

\* The text of a string content.
StepContentText == OkText

ToolNames ==
    {"lookup-candidate", "submit-candidate-application", "check-requirements",
     "schedule-callback", "tool"}

\* The last element of response.toolResults: toolName, and result.found or
\* result.success; NoToolResults for an empty or missing array.
NoToolResults == [toolName |-> "none", flag |-> FALSE]

LastToolResults == {NoToolResults} \cup [toolName : ToolNames, flag : BOOLEAN]

\* The responses of agent.generate.
AllResponses ==
    [text : ResponseTexts, reasoningText : {<<>>, BoldText},
     steps : {<<>>} \cup {<<step>> : step \in StepShapes},
     lastToolResult : LastToolResults, toolCalls : BOOLEAN]

\* step?.text?.trim() || step?.response?.text?.trim() || step?.content?.trim()
\* || (Array.isArray(step?.content) ? ... : null): calling trim on an array
\* is a TypeError, so the last alternative is never reached.
StepText(step) ==
    IF Trim(step.text) # <<>>
    THEN [kind |-> "text", text |-> Trim(step.text)]
    ELSE CASE step.content = "undefined" -> [kind |-> "text", text |-> <<>>]
           [] step.content = "string" -> [kind |-> "text", text |-> Trim(StepContentText)]
           [] step.content = "array" -> [kind |-> "throws", text |-> <<>>]

\* The loop over response.steps from the last to the first.
RECURSIVE TextFromSteps(_)
TextFromSteps(steps) ==
    IF steps = <<>>
    THEN [kind |-> "text", text |-> <<>>]
    ELSE LET t == StepText(steps[Len(steps)])
         IN  IF t.kind = "throws" \/ t.text # <<>>
             THEN t
             ELSE TextFromSteps(SubSeq(steps, 1, Len(steps) - 1))

\* "Generate contextual message based on which tool was called"
MessageFromToolResult(result) ==
    CASE result.toolName = "lookup-candidate" ->
            IF result.flag THEN RecordsFoundMessage ELSE NoRecordMessage
      [] result.toolName = "submit-candidate-application" ->
            IF result.flag THEN SubmittedMessage ELSE NotedInformationMessage
      [] result.toolName = "check-requirements" -> RequirementsMessage
      [] result.toolName = "schedule-callback" -> CallbackMessage
      [] OTHER -> ProcessedMessage

\* responseText after the fallbacks, or the TypeError of the loop over the
\* steps.
ResponseText(response) ==
    IF Trim(response.text) # <<>>
    THEN [kind |-> "text", text |-> Trim(response.text)]
    ELSE IF Trim(response.reasoningText) # <<>>
         THEN [kind |-> "text", text |-> Trim(response.reasoningText)]
         ELSE LET fromSteps == TextFromSteps(response.steps)
              IN  IF fromSteps.kind = "throws" \/ fromSteps.text # <<>>
                  THEN fromSteps
                  ELSE IF response.lastToolResult # NoToolResults
                       THEN [kind |-> "text",
                             text |-> MessageFromToolResult(response.lastToolResult)]
                       ELSE IF response.toolCalls
                            THEN [kind |-> "text", text |-> NotedMessage]
                            ELSE [kind |-> "text", text |-> <<>>]

\* A reply without the last fallback, which the source's has.
RawWithoutFallback(responseText) == responseText

\* const raw = responseText || 'I apologize, I was unable to ...'
Raw(responseText) == IF responseText # <<>> THEN responseText ELSE UnableMessage

\* messageToSend
MessageToSend(raw) == ReplaceItalic(ReplaceBold(raw))

\* const MAX_LENGTH = 4000
MAX_LENGTH == 4000

\* A lastIndexOf that ignores fromIndex, which JavaScript's does not.
LastIndexOfAnywhere(s, sub, fromIndex) ==
    LET found == {i \in 0..Len(s) :
                    i + Len(sub) <= Len(s) /\ SubSeq(s, i + 1, i + Len(sub)) = sub}
    IN  IF found = {} THEN -1 ELSE CHOOSE i \in found : \A j \in found : j <= i

\* String.prototype.lastIndexOf(sub, fromIndex): the largest index (from 0)
\* not above fromIndex at which sub starts, or -1.
LastIndexOf(s, sub, fromIndex) ==
    LET found == {i \in 0..fromIndex :
                    i + Len(sub) <= Len(s) /\ SubSeq(s, i + 1, i + Len(sub)) = sub}
    IN  IF found = {} THEN -1 ELSE CHOOSE i \in found : \A j \in found : j <= i

\* "Find a good break point": the last paragraph break, else (or if that is
\* in the first half) the last line break, else (or if that is in the first
\* half) the last space, else MAX_LENGTH.
BreakPoint(remaining) ==
    LET paragraph == LastIndexOf(remaining, <<"\n", "\n">>, MAX_LENGTH)
        line == IF paragraph = -1 \/ 2 * paragraph < MAX_LENGTH
                THEN LastIndexOf(remaining, <<"\n">>, MAX_LENGTH)
                ELSE paragraph
        space == IF line = -1 \/ 2 * line < MAX_LENGTH
                 THEN LastIndexOf(remaining, <<" ">>, MAX_LENGTH)
                 ELSE line
    IN  IF space = -1 THEN MAX_LENGTH ELSE space

\* One iteration of the loop up to the send: chunk, and remaining after it.
NextChunk(remaining) ==
    IF Len(remaining) <= MAX_LENGTH
    THEN [chunk |-> remaining, remaining |-> <<>>]
    ELSE LET breakPoint == BreakPoint(remaining)
         IN  [chunk |-> SubSeq(remaining, 1, breakPoint),
              remaining |-> Trim(DropFirst(remaining, breakPoint))]

\* while (remaining.length > 0) { ... }
RECURSIVE SendLoop(_, _)
SendLoop(remaining, messages) ==
    IF Len(remaining) = 0
    THEN messages
    ELSE SendLoop(NextChunk(remaining).remaining,
                  Append(messages, NextChunk(remaining).chunk))

\* sendLongMessage: the chunks it passes to the transport when every send
\* returns.
sendLongMessage(text) == SendLoop(text, <<>>)

\* What handleTextMessage sends for a response: the chunks, or the TypeError.
ReplyTo(response) ==
    LET responseText == ResponseText(response)
    IN  IF responseText.kind = "throws"
        THEN [kind |-> "throws", chunks |-> <<>>]
        ELSE [kind |-> "chunks",
              chunks |-> sendLongMessage(MessageToSend(Raw(responseText.text)))]

\* ReplyTo on every response, computed once.
ReplyOf == [response \in AllResponses |-> ReplyTo(response)]

\* The response of a turn in which the agent answers with plain text.
PlainResponse(reported) ==
    [text |-> OkText, reasoningText |-> <<>>, steps |-> <<>>,
     lastToolResult |-> NoToolResults, toolCalls |-> reported]

(***************************************************************************)
(* Actions: inbound events                                                 *)
(*                                                                         *)
(* A handler is modelled from the first statement that touches the maps:   *)
(* what it awaits before (sendTypingAction on Telegram) reads and writes   *)
(* nothing.  Likewise getFileUrl and uploadFileFromUrl, awaited one after  *)
(* the other with nothing in between, are one stage, "fetch".              *)
(***************************************************************************)

\* res.sendStatus(200) on Telegram, res.send(<empty TwiML>) on WhatsApp: the
\* route handler responds before it calls the webhook handler.
Respond(responses, event) ==
    MapSet(responses, event,
           (IF event \in DOMAIN responses THEN responses[event] ELSE 0) + 1)

\* res.headersSent
HeadersSent(responses, event) == event \in DOMAIN responses /\ responses[event] > 0

\* A catch that responds whatever was sent before, which the source's does
\* not.
RespondAgain(responses, event) == Respond(responses, event)

\* The catch of the route handler: if (!res.headersSent) { respond }
RouteCatch(responses, event) ==
    IF HeadersSent(responses, event) THEN responses ELSE Respond(responses, event)

\* The webhook handler's promise rejects only on WhatsApp, whose catch
\* awaits the apology outside any try: handleTelegramWebhook catches the
\* failure of its apology too.
Rejects(h, apologySent) == h.user \in WhatsAppUsers /\ ~apologySent

AfterHandlerFails(responses, h, apologySent) ==
    IF Rejects(h, apologySent) THEN RouteCatch(responses, h.id) ELSE responses

\* The catch of the webhook handler has run for h: the apology was sent or
\* failed to be, and the route handler's catch runs if the promise rejected.
HandlerFails(h) ==
    \E apologySent \in BOOLEAN :
        /\ acks' = AfterHandlerFails(acks, h, apologySent)
        /\ rejected' = IF Rejects(h, apologySent) THEN rejected \cup {h.id} ELSE rejected

NewHandler(u, pc, text, att) ==
    [id |-> nextEvent, user |-> u, pc |-> pc, text |-> text, att |-> att,
     respPhone |-> NoPhone, toolResult |-> NoResult, reply |-> <<>>]

At(h, pc) == [h EXCEPT !.pc = pc]

Replace(h, h2) == (handlers \ {h}) \cup {h2}

\* handleTelegramWebhook on a text message: the context is created if
\* missing, handleTextMessage pre-stores and awaits agent.generate.
ReceiveTelegramText(u, text) ==
    /\ nextEvent <= MaxEvents
    /\ LET ctx == EnsureContext(userContexts, u)
           h == NewHandler(u, "gateway", text, NoAttachment)
       IN  /\ userContexts' = ctx
           /\ fileStoreByPhone' = PreStore(fileStoreByPhone, ctx, u, PromptOf(h))
           /\ consumed' = consumed \ PreStoreKeys(ctx, u, PromptOf(h))
           /\ handlers' = handlers \cup {h}
    /\ nextEvent' = nextEvent + 1
    /\ acks' = Respond(acks, nextEvent)
    /\ UNCHANGED <<submissions, crmFiles, attachments, nSubmits, candidates, rejected, lastCalls, normVars, auxVars>>

\* handleTelegramWebhook on a document or a video: handleFileUpload checks
\* the size, then awaits the size-limit message or getFileUrl.
ReceiveTelegramFile(u, att, caption) ==
    /\ nextEvent <= MaxEvents
    /\ userContexts' = EnsureContext(userContexts, u)
    /\ handlers' = handlers \cup
          {NewHandler(u, IF att.bytes > MAX_DOWNLOAD_SIZE_BYTES THEN "sizeMsg" ELSE "fetch",
                      caption, att)}
    /\ attachments' = MapSet(attachments, nextEvent, [user |-> u, bytes |-> att.bytes])
    /\ nextEvent' = nextEvent + 1
    /\ acks' = Respond(acks, nextEvent)
    /\ UNCHANGED <<fileStoreByPhone, submissions, crmFiles, consumed, nSubmits, candidates, rejected, lastCalls, normVars, auxVars>>

\* handleWhatsAppWebhook on a text.
ReceiveWhatsAppText(u, text) ==
    /\ nextEvent <= MaxEvents
    /\ LET ctx == EnsureContext(userContexts, u)
           h == NewHandler(u, "gateway", text, NoAttachment)
       IN  /\ userContexts' = ctx
           /\ fileStoreByPhone' = PreStore(fileStoreByPhone, ctx, u, PromptOf(h))
           /\ consumed' = consumed \ PreStoreKeys(ctx, u, PromptOf(h))
           /\ handlers' = handlers \cup {h}
    /\ nextEvent' = nextEvent + 1
    /\ acks' = Respond(acks, nextEvent)
    /\ UNCHANGED <<submissions, crmFiles, attachments, nSubmits, candidates, rejected, lastCalls, normVars, auxVars>>

\* handleWhatsAppWebhook on media: handleFileUpload has the URL from Twilio,
\* checks no size, and awaits uploadFileFromUrl.
ReceiveWhatsAppFile(u, att, caption) ==
    /\ nextEvent <= MaxEvents
    /\ userContexts' = EnsureContext(userContexts, u)
    /\ handlers' = handlers \cup {NewHandler(u, "fetch", caption, att)}
    /\ attachments' = MapSet(attachments, nextEvent, [user |-> u, bytes |-> att.bytes])
    /\ nextEvent' = nextEvent + 1
    /\ acks' = Respond(acks, nextEvent)
    /\ UNCHANGED <<fileStoreByPhone, submissions, crmFiles, consumed, nSubmits, candidates, rejected, lastCalls, normVars, auxVars>>

\* context.pendingFiles.push({type, fileId, ...})
PushPendingFile(contexts, userId, type, fileId) ==
    [contexts EXCEPT ![userId].pendingFiles = Append(@, [type |-> type, fileId |-> fileId])]

\* uploadFileFromUrl returned: a video or a resume is pushed to pendingFiles,
\* and the message that answers the file is awaited.
FetchReturns(h) ==
    /\ h \in handlers
    /\ h.pc = "fetch"
    /\ userContexts' =
          IF Classify(h.att) \in {"video", "resume"}
          THEN PushPendingFile(userContexts, h.user, Classify(h.att), <<"event", h.id>>)
          ELSE userContexts
    /\ handlers' = Replace(h, At(h, "ackMsg"))
    /\ UNCHANGED <<fileStoreByPhone, submissions, nextEvent, crmFiles,
                   attachments, consumed, nSubmits, acks, candidates, rejected, lastCalls, normVars, auxVars>>

\* uploadFileFromUrl threw: handleFileUpload awaits it outside any try, so
\* the failure reaches the catch of the webhook handler, which sends the
\* apology; nothing is buffered and a caption is not processed.
UploadThrows(h, env) ==
    /\ h \in handlers
    /\ h.pc = "fetch"
    /\ uploadFileFromUrl(env) = "throws"
    /\ handlers' = handlers \ {h}
    /\ HandlerFails(h)
    /\ UNCHANGED <<userContexts, fileStoreByPhone, submissions, nextEvent,
                   crmFiles, attachments, consumed, nSubmits, candidates, lastCalls, normVars, auxVars>>

\* getFileUrl threw (Telegram): the user is told, nothing is buffered.
GetFileUrlThrows(h) ==
    /\ h \in handlers
    /\ h.pc = "fetch"
    /\ h.user \in TelegramUsers
    /\ handlers' = Replace(h, At(h, "urlFailMsg"))
    /\ UNCHANGED <<userContexts, fileStoreByPhone, submissions, nextEvent,
                   crmFiles, attachments, consumed, nSubmits, acks, candidates, rejected, lastCalls, normVars, auxVars>>

\* The message that ends handleFileUpload was sent (size limit, URL error or
\* acknowledgment): a caption, if any, now goes to handleTextMessage.
FileMessageSent(h) ==
    /\ h \in handlers
    /\ h.pc \in {"sizeMsg", "urlFailMsg", "ackMsg"}
    /\ IF Trim(TextChars(h.text)) # <<>>
       THEN /\ fileStoreByPhone' =
                  PreStore(fileStoreByPhone, userContexts, h.user, PromptOf(h))
            /\ consumed' = consumed \ PreStoreKeys(userContexts, h.user, PromptOf(h))
            /\ handlers' = Replace(h, At(h, "gateway"))
       ELSE /\ handlers' = handlers \ {h}
            /\ UNCHANGED <<fileStoreByPhone, consumed>>
    /\ UNCHANGED <<userContexts, submissions, nextEvent, crmFiles,
                   attachments, nSubmits, acks, candidates, rejected, lastCalls, normVars, auxVars>>

(***************************************************************************)
(* Actions: the agent gateway call and the submissions it runs             *)
(***************************************************************************)

Busy(h) == \E s \in submissions : s.handler = h.id

\* The agent calls submit-candidate-application: execute runs up to its
\* first await, the read and the delete of the store included.  The handler
\* keeps the phone of the first tool call of its gateway call.
SubmitStart(h, phone, explicit) ==
    /\ h \in handlers
    /\ h.pc = "gateway"
    /\ ~Busy(h)
    /\ nSubmits < MaxSubmits
    /\ nSubmits' = nSubmits + 1
    /\ LET normalizedPhone == normalizePhoneTool(phone)
           storedFiles == MapGet(fileStoreByPhone, normalizedPhone)
       IN  /\ submissions' = submissions \cup
                {[handler |-> h.id, phone |-> phone, data |-> explicit,
                  storedFiles |-> storedFiles,
                  afterConsume |-> normalizedPhone \in consumed,
                  finalResumeFile |->
                      ResolveFile(explicit.resumeFile, storedFiles.resumeFile),
                  finalIntroVideoFile |->
                      ResolveFile(explicit.introVideoFile, storedFiles.introVideoFile)]}
           /\ fileStoreByPhone' = ConsumeStore(fileStoreByPhone, normalizedPhone)
           /\ consumed' = consumed \cup {normalizedPhone}
    /\ handlers' =
          Replace(h, [h EXCEPT !.respPhone = IF @ = NoPhone THEN phone ELSE @])
    /\ UNCHANGED <<userContexts, nextEvent, crmFiles, attachments, acks, candidates,
                   rejected, lastCalls, normVars, auxVars>>

\* The buffered files of a lead, each under the lead's normalized phone.
LeadFiles(s) ==
    {<<normalizePhoneTool(s.phone), f>> :
        f \in {g \in {s.finalResumeFile, s.finalIntroVideoFile} : g[1] = "event"}}

CountLead(count, files) ==
    [k \in DOMAIN count \cup files |->
        (IF k \in DOMAIN count THEN count[k] ELSE 0) + (IF k \in files THEN 1 ELSE 0)]

\* What the awaits of execute meet: whether the INSERT of saveCandidate
\* succeeds, whether getFileUrl of ensureFileUrl does, and whether
\* createCandidateLead does.
DownstreamOutcomes == [db : BOOLEAN, url : BOOLEAN, crm : BOOLEAN]

AllSucceed == [db |-> TRUE, url |-> TRUE, crm |-> TRUE]

\* saveCandidate: INSERT INTO candidates (name, phone, normalized_phone).
saveCandidate(rows, phone) ==
    LET normalized == normalizePhoneDb(phone)
    IN  MapSet(rows, normalized,
               (IF normalized \in DOMAIN rows THEN rows[normalized] ELSE 0) + 1)

\* An execute that lets a failure of createCandidateLead escape, which the
\* source's does not.
RethrowCrmFailure(outcome) == IF outcome.crm THEN "returns" ELSE "throws"

\* How execute ends: each await sits in a try whose catch logs and goes on.
ExecuteCompletes(outcome) == "returns"

\* The value execute returns: success, and nextSteps with the reminder of a
\* file for which the tool call gave no reference.
ExecuteResult(data) ==
    [success |-> TRUE,
     resumeReminder |-> data.resumeFile = Undefined,
     introVideoReminder |-> data.introVideoFile = Undefined]

\* An execute that gives up when the database write fails, which the
\* source's does not.
ExecuteCallsUntilFailure(outcome) ==
    IF outcome.db THEN <<"saveCandidate", "createCandidateLead">> ELSE <<"saveCandidate">>

\* The calls execute makes to the database and to the CRM, in order: await
\* saveCandidate in its try, then await createCandidateLead in its own.
ExecuteCalls(outcome) == <<"saveCandidate", "createCandidateLead">>

\* What the gateway call has of a tool whose execute threw.
ExecuteThrew == [kind |-> "threw", success |-> FALSE]

\* The awaits of execute (saveCandidate, ensureFileUrl, createCandidateLead)
\* are over: a row was inserted if the database took it, the lead was given
\* the final files, and the gateway call has the result of the tool.
SubmitEnds(s, outcome) ==
    /\ s \in submissions
    /\ candidates' = IF outcome.db THEN saveCandidate(candidates, s.phone) ELSE candidates
    /\ crmFiles' = CountLead(crmFiles, LeadFiles(s))
    /\ submissions' = submissions \ {s}
    /\ lastCalls' = ExecuteCalls(outcome)
    /\ handlers' =
          {IF h.id = s.handler
           THEN [h EXCEPT !.toolResult =
                           IF ExecuteCompletes(outcome) = "returns"
                           THEN [kind |-> "returned",
                                 success |-> ExecuteResult(s.data).success]
                           ELSE ExecuteThrew]
           ELSE h : h \in handlers}
    /\ UNCHANGED <<userContexts, fileStoreByPhone, nextEvent, attachments,
                   consumed, nSubmits, acks, rejected, normVars, auxVars>>

\* The same with every downstream call succeeding.
SubmitReturns(s) == SubmitEnds(s, AllSucceed)

\* The responses agent.generate may return to a handler: the result of
\* submit-candidate-application it reports is the one execute returned.
ResponsesTo(h) ==
    {response \in AllResponses :
        response.lastToolResult.toolName = "submit-candidate-application"
            => /\ h.toolResult.kind = "returned"
               /\ response.lastToolResult.flag = h.toolResult.success}

\* agent.generate returned: the reply is computed and sendLongMessage is
\* awaited, or the computation throws and the catch of the webhook handler
\* awaits the apology.  extractPhoneFromResponse will find the phone of the
\* first tool call if the response reports the tool calls, else null.
GatewayResponds(h, response) ==
    /\ h \in handlers
    /\ h.pc = "gateway"
    /\ ~Busy(h)
    /\ handlers' =
          Replace(h, IF ReplyOf[response].kind = "throws"
                     THEN [h EXCEPT !.pc = "apology", !.reply = <<ApologyMessage>>]
                     ELSE [h EXCEPT !.pc = "reply",
                                    !.respPhone = IF response.toolCalls THEN @ ELSE NoPhone,
                                    !.reply = ReplyOf[response].chunks])
    /\ UNCHANGED <<userContexts, fileStoreByPhone, submissions, nextEvent,
                   crmFiles, attachments, consumed, nSubmits, acks, candidates, rejected, lastCalls, normVars, auxVars>>

\* The same for a response with plain text, reporting the tool calls or not.
GatewayReturns(h, reported) == GatewayResponds(h, PlainResponse(reported))

\* The apology for a failed reply computation was sent, or failed to be.
ApologySent(h) ==
    /\ h \in handlers
    /\ h.pc = "apology"
    /\ handlers' = handlers \ {h}
    /\ HandlerFails(h)
    /\ UNCHANGED <<userContexts, fileStoreByPhone, submissions, nextEvent,
                   crmFiles, attachments, consumed, nSubmits, candidates, lastCalls, normVars, auxVars>>

\* agent.generate threw: the webhook handler's catch sends the apology, and
\* touches neither map.
GatewayThrows(h) ==
    /\ h \in handlers
    /\ h.pc = "gateway"
    /\ ~Busy(h)
    /\ handlers' = handlers \ {h}
    /\ HandlerFails(h)
    /\ UNCHANGED <<userContexts, fileStoreByPhone, submissions, nextEvent,
                   crmFiles, attachments, consumed, nSubmits, candidates, lastCalls, normVars, auxVars>>

\* sendLongMessage returned: files are stored under the phone of the
\* response (on WhatsApp under the sender's when it has none).
ReplySent(h) ==
    /\ h \in handlers
    /\ h.pc = "reply"
    /\ fileStoreByPhone' = PostStore(fileStoreByPhone, userContexts, h.user, h.respPhone)
    /\ consumed' = consumed \ PostStoreKeys(userContexts, h.user, h.respPhone)
    /\ handlers' = handlers \ {h}
    /\ UNCHANGED <<userContexts, submissions, nextEvent, crmFiles,
                   attachments, nSubmits, acks, candidates, rejected, lastCalls, normVars, auxVars>>

\* sendLongMessage threw (sendTelegramMessage throws when the API answers
\* not ok, sendWhatsAppMessage rethrows): the statements after it are skipped
\* and the catch of the webhook handler sends the apology.
ReplyFails(h) ==
    /\ h \in handlers
    /\ h.pc = "reply"
    /\ handlers' = handlers \ {h}
    /\ HandlerFails(h)
    /\ UNCHANGED <<userContexts, fileStoreByPhone, submissions, nextEvent,
                   crmFiles, attachments, consumed, nSubmits, candidates, lastCalls, normVars, auxVars>>

(***************************************************************************)
(* Specification of the normalizers alone                                  *)
(***************************************************************************)

SendIdle ==
    /\ sendText = <<>>
    /\ sendRemaining = <<>>
    /\ sendChunks = <<>>
    /\ sendPc = "idle"

NoCleanup == [users |-> {}, maxAgeMs |-> 0, removed |-> {}]

CleanupIdle ==
    /\ now = 0
    /\ lastMessageTime = [u \in Users |-> 0]
    /\ lastCleanup = NoCleanup

Tokens == {"k1", "k2"}

\* The Telegram user a token is generated for.
TokenUser(token) == IF token = "k1" THEN "t1" ELSE "t2"

NoToken == [exists |-> FALSE, userId |-> "", used |-> FALSE, expired |-> FALSE]

UploadIdle ==
    /\ tokenStore = [k \in Tokens |-> NoToken]
    /\ webUploadsByUserId = [u \in TelegramUsers |-> <<>>]
    /\ requests = {}
    /\ answers = EmptyMap
    /\ nextRequest = 1

AuxIdle == SendIdle /\ CleanupIdle /\ UploadIdle

NormIdle ==
    /\ normVariant = "telegram"
    /\ normInput = <<>>
    /\ normOnce = <<>>
    /\ normTwice = <<>>
    /\ normOther = <<>>
    /\ normOtherOnce = <<>>
    /\ normStage = 0

InitNorm ==
    /\ BotIdle
    /\ AuxIdle
    /\ normVariant \in NormalizerVariants
    /\ normInput \in NormInputs
    /\ normOnce = <<>>
    /\ normTwice = <<>>
    /\ normOther = <<>>
    /\ normOtherOnce = <<>>
    /\ normStage = 0

NormalizeOnce ==
    /\ normStage = 0
    /\ normOnce' = NormalizeBy(normVariant, normInput)
    /\ normStage' = 1
    /\ UNCHANGED <<normVariant, normInput, normTwice, normOther, normOtherOnce, botVars, auxVars>>

NormalizeAgain ==
    /\ normStage = 1
    /\ normTwice' = NormalizeBy(normVariant, normOnce)
    /\ normStage' = 2
    /\ UNCHANGED <<normVariant, normInput, normOnce, normOther, normOtherOnce, botVars, auxVars>>

NextNorm == NormalizeOnce \/ NormalizeAgain

SpecNorm == InitNorm /\ [][NextNorm]_vars

\* The normalizers of the webhook and of the tool on two spellings of a number.
InitPairs ==
    /\ BotIdle
    /\ AuxIdle
    /\ normVariant \in {"telegram", "tool"}
    /\ normInput \in PairInputs
    /\ normOther \in FormatEdits(normInput)
    /\ normOnce = <<>>
    /\ normTwice = <<>>
    /\ normOtherOnce = <<>>
    /\ normStage = 0

NormalizeBoth ==
    /\ normStage = 0
    /\ normOnce' = NormalizeBy(normVariant, normInput)
    /\ normOtherOnce' = NormalizeBy(normVariant, normOther)
    /\ normStage' = 3
    /\ UNCHANGED <<normVariant, normInput, normTwice, normOther, botVars, auxVars>>

NextPairs == NormalizeBoth

SpecPairs == InitPairs /\ [][NextPairs]_vars

(***************************************************************************)
(* Specification of sendLongMessage alone                                  *)
(***************************************************************************)

Run(n) == [i \in 1..n |-> "a"]

\* The lengths of the runs of letters, around MAX_LENGTH and its half.
FirstRuns ==
    {1, MAX_LENGTH \div 2 - 1, MAX_LENGTH \div 2, MAX_LENGTH - 1, MAX_LENGTH,
     MAX_LENGTH + 1}

SecondRuns == {0, 1, MAX_LENGTH + 1}

\* The reply texts: a run of letters, a break, a second run, with or without
\* a blank in front and at the end.
SendTexts ==
    {lead \o Run(first) \o break \o Run(second) \o trail :
        lead \in {<<>>, <<" ">>}, first \in FirstRuns,
        break \in {<<>>, <<" ">>, <<"\n">>, <<"\n", "\n">>},
        second \in SecondRuns, trail \in {<<>>, <<" ">>}}

InitSend ==
    /\ BotIdle
    /\ NormIdle
    /\ CleanupIdle
    /\ UploadIdle
    /\ sendText \in SendTexts
    /\ sendRemaining = sendText
    /\ sendChunks = <<>>
    /\ sendPc = "loop"

\* An iteration of the loop up to its await of the transport.
SendNext ==
    /\ sendPc = "loop"
    /\ Len(sendRemaining) > 0
    /\ sendChunks' = Append(sendChunks, NextChunk(sendRemaining).chunk)
    /\ sendRemaining' = NextChunk(sendRemaining).remaining
    /\ sendPc' = "send"
    /\ UNCHANGED <<sendText, botVars, normVars, cleanupVars, uploadVars>>

\* The transport returned: the delay is awaited if text remains.
SendReturns ==
    /\ sendPc = "send"
    /\ sendPc' = IF Len(sendRemaining) > 0 THEN "delay" ELSE "done"
    /\ UNCHANGED <<sendText, sendRemaining, sendChunks, botVars, normVars, cleanupVars, uploadVars>>

DelayOver ==
    /\ sendPc = "delay"
    /\ sendPc' = "loop"
    /\ UNCHANGED <<sendText, sendRemaining, sendChunks, botVars, normVars, cleanupVars, uploadVars>>

NextSend == SendNext \/ SendReturns \/ DelayOver

SpecSend == InitSend /\ [][NextSend]_vars

(***************************************************************************)
(* Specification of cleanupOldContexts alone                               *)
(***************************************************************************)

MaxTime == 3

\* A cleanup that also removes a session exactly maxAgeMs old, which the
\* source's does not.
cleanupAtMaxAge(contexts, users, times, nowMs, maxAgeMs) ==
    [u \in DOMAIN contexts |->
        IF u \in users /\ contexts[u].exists /\ nowMs - times[u] >= maxAgeMs
        THEN NoContext
        ELSE contexts[u]]

\* cleanupOldContexts of a webhook module, on the sessions of its userContexts.
cleanupOldContexts(contexts, users, times, nowMs, maxAgeMs) ==
    [u \in DOMAIN contexts |->
        IF u \in users /\ contexts[u].exists /\ nowMs - times[u] > maxAgeMs
        THEN NoContext
        ELSE contexts[u]]

\* The file store when the cleanups start: empty, or with a resume published.
CleanupStores ==
    {EmptyMap, MapSet(EmptyMap, KeyEight, [NoEntry EXCEPT !.resumeFile = <<"event", 1>>])}

InitCleanup ==
    /\ userContexts = [u \in Users |-> NoContext]
    /\ fileStoreByPhone \in CleanupStores
    /\ handlers = {}
    /\ submissions = {}
    /\ nextEvent = 1
    /\ nSubmits = 0
    /\ crmFiles = EmptyCount
    /\ attachments = EmptyMap
    /\ consumed = {}
    /\ acks = EmptyCount
    /\ candidates = EmptyCount
    /\ rejected = {}
    /\ lastCalls = <<>>
    /\ NormIdle
    /\ SendIdle
    /\ CleanupIdle
    /\ UploadIdle

\* Time passes.
Tick ==
    /\ now < MaxTime
    /\ now' = now + 1
    /\ lastCleanup' = NoCleanup
    /\ UNCHANGED <<lastMessageTime, botVars, normVars, sendVars, uploadVars>>

\* A message of user u arrives: the context is created if there is none,
\* context.lastMessageTime = Date.now(), and a file of the message is pushed.
Touch(u, withFile) ==
    /\ userContexts' =
          IF withFile /\ userContexts[u].pendingFiles = <<>>
          THEN PushPendingFile(EnsureContext(userContexts, u), u, "resume", <<"event", 1>>)
          ELSE EnsureContext(userContexts, u)
    /\ lastMessageTime' = [lastMessageTime EXCEPT ![u] = now]
    /\ lastCleanup' = NoCleanup
    /\ UNCHANGED <<now, fileStoreByPhone, handlers, submissions, nextEvent, nSubmits,
                   crmFiles, attachments, consumed, acks, candidates, rejected,
                   lastCalls, normVars, sendVars, uploadVars>>

\* cleanupOldContexts(maxAgeMs) of the module that keeps the sessions of users.
CleanupOldContexts(users, maxAgeMs) ==
    /\ userContexts' = cleanupOldContexts(userContexts, users, lastMessageTime, now, maxAgeMs)
    /\ lastMessageTime' =
          [u \in Users |-> IF userContexts'[u].exists THEN lastMessageTime[u] ELSE 0]
    /\ lastCleanup' = [users |-> users, maxAgeMs |-> maxAgeMs,
                       removed |-> {u \in Users : userContexts[u].exists
                                                    /\ ~userContexts'[u].exists}]
    /\ UNCHANGED <<now, fileStoreByPhone, handlers, submissions, nextEvent, nSubmits,
                   crmFiles, attachments, consumed, acks, candidates, rejected,
                   lastCalls, normVars, sendVars, uploadVars>>

NextCleanup ==
    \/ Tick
    \/ \E u \in Users, withFile \in BOOLEAN : Touch(u, withFile)
    \/ \E users \in {TelegramUsers, WhatsAppUsers}, maxAgeMs \in 0..MaxTime :
          CleanupOldContexts(users, maxAgeMs)

SpecCleanup == InitCleanup /\ [][NextCleanup]_vars

(***************************************************************************)
(* The web upload routes                                                   *)
(***************************************************************************)

MaxRequests == 3

\* The check both routes make first: the status they answer with at once,
\* or 0 if the request goes on.
Gone(data) ==
    IF ~data.exists \/ data.expired THEN 410
    ELSE IF data.used THEN 410
    ELSE 0

\* An upload of the token is in webUploadsByUserId.
Stored(token) ==
    \E i \in 1..Len(webUploadsByUserId[TokenUser(token)]) :
        answers[webUploadsByUserId[TokenUser(token)][i].fileUrl[2]].token = token

NewAnswer(token, method, status) ==
    MapSet(answers, nextRequest,
           [token |-> token, method |-> method, late |-> Stored(token), status |-> status])

Answer(r, status) == [answers EXCEPT ![r.id].status = status]

\* generateUploadLink for the user of the token.
GenerateUploadLink(token) ==
    /\ ~tokenStore[token].exists
    /\ tokenStore' = [tokenStore EXCEPT ![token] =
                         [exists |-> TRUE, userId |-> TokenUser(token),
                          used |-> FALSE, expired |-> FALSE]]
    /\ UNCHANGED <<webUploadsByUserId, requests, answers, nextRequest,
                   botVars, normVars, sendVars, cleanupVars>>

\* Date.now() passes data.expiresAt.
TokenExpires(token) ==
    /\ tokenStore[token].exists
    /\ ~tokenStore[token].expired
    /\ tokenStore' = [tokenStore EXCEPT ![token].expired = TRUE]
    /\ UNCHANGED <<webUploadsByUserId, requests, answers, nextRequest,
                   botVars, normVars, sendVars, cleanupVars>>

\* GET /upload/:token
GetUpload(token) ==
    /\ nextRequest <= MaxRequests
    /\ answers' = NewAnswer(token, "GET",
                            IF Gone(tokenStore[token]) = 0 THEN 200 ELSE 410)
    /\ nextRequest' = nextRequest + 1
    /\ UNCHANGED <<tokenStore, webUploadsByUserId, requests,
                   botVars, normVars, sendVars, cleanupVars>>

\* POST /upload/:token up to the call of multer.
PostUpload(token) ==
    /\ nextRequest <= MaxRequests
    /\ answers' = NewAnswer(token, "POST", Gone(tokenStore[token]))
    /\ requests' = IF Gone(tokenStore[token]) = 0
                   THEN requests \cup {[id |-> nextRequest, token |-> token, pc |-> "parse"]}
                   ELSE requests
    /\ nextRequest' = nextRequest + 1
    /\ UNCHANGED <<tokenStore, webUploadsByUserId,
                   botVars, normVars, sendVars, cleanupVars>>

\* multer calls back with an error or without a file.
ParseFails(r) ==
    /\ r \in requests /\ r.pc = "parse"
    /\ requests' = requests \ {r}
    /\ answers' = Answer(r, 400)
    /\ UNCHANGED <<tokenStore, webUploadsByUserId, nextRequest,
                   botVars, normVars, sendVars, cleanupVars>>

\* multer calls back with the file: data.used = true, and uploadFileBuffer
\* is awaited.
ParseDone(r) ==
    /\ r \in requests /\ r.pc = "parse"
    /\ tokenStore' = [tokenStore EXCEPT ![r.token].used = TRUE]
    /\ requests' = (requests \ {r}) \cup {[r EXCEPT !.pc = "drive"]}
    /\ UNCHANGED <<webUploadsByUserId, answers, nextRequest,
                   botVars, normVars, sendVars, cleanupVars>>

\* uploadFileBuffer returns nothing or throws: data.used = false.
DriveFails(r) ==
    /\ r \in requests /\ r.pc = "drive"
    /\ tokenStore' = [tokenStore EXCEPT ![r.token].used = FALSE]
    /\ requests' = requests \ {r}
    /\ answers' = Answer(r, 500)
    /\ UNCHANGED <<webUploadsByUserId, nextRequest,
                   botVars, normVars, sendVars, cleanupVars>>

\* uploadFileBuffer returns the Drive file: the entry is pushed, and the
\* confirmation to the chat is awaited.
DriveReturns(r) ==
    /\ r \in requests /\ r.pc = "drive"
    /\ webUploadsByUserId' =
          [webUploadsByUserId EXCEPT ![tokenStore[r.token].userId] =
              Append(@, [type |-> "video", fileUrl |-> <<"request", r.id>>])]
    /\ requests' = (requests \ {r}) \cup {[r EXCEPT !.pc = "notify"]}
    /\ UNCHANGED <<tokenStore, answers, nextRequest,
                   botVars, normVars, sendVars, cleanupVars>>

\* sendTelegramMessage returns or throws: the success page is sent.
Notified(r) ==
    /\ r \in requests /\ r.pc = "notify"
    /\ requests' = requests \ {r}
    /\ answers' = Answer(r, 200)
    /\ UNCHANGED <<tokenStore, webUploadsByUserId, nextRequest,
                   botVars, normVars, sendVars, cleanupVars>>

(***************************************************************************)
(* The bot's specification                                                 *)
(***************************************************************************)

Init == BotIdle /\ NormIdle /\ AuxIdle

NoExplicit == [resumeFile |-> Undefined, introVideoFile |-> Undefined]

\* The bot with a Telegram user and a WhatsApp user who give the same number.
Next ==
    \/ \E t \in TextsOf("t1") : ReceiveTelegramText("t1", t)
    \/ \E a \in {PdfSmall, VideoLarge} : ReceiveTelegramFile("t1", a, NoText)
    \/ \E t \in TextsOf("w1") : ReceiveWhatsAppText("w1", t)
    \/ \E a \in AttachmentsOf("w1"), c \in CaptionsOf("w1") : ReceiveWhatsAppFile("w1", a, c)
    \/ \E h \in handlers : FetchReturns(h)
    \/ \E h \in handlers : GetFileUrlThrows(h)
    \/ \E h \in handlers : FileMessageSent(h)
    \/ \E h \in handlers : \E p \in ToolPhonesOf(h.user) : SubmitStart(h, p, NoExplicit)
    \/ \E s \in submissions : SubmitReturns(s)
    \/ \E h \in handlers : \E reported \in BOOLEAN : GatewayReturns(h, reported)
    \/ \E h \in handlers : GatewayThrows(h)
    \/ \E h \in handlers : ReplySent(h)

Spec == Init /\ [][Next]_vars

\* One Telegram user who gives the number 89991234567.
NextTelegram ==
    \/ ReceiveTelegramText("t1", "eight")
    \/ \E a \in {PdfSmall, VideoSmall} : ReceiveTelegramFile("t1", a, NoText)
    \/ \E h \in handlers : FetchReturns(h)
    \/ \E h \in handlers : GetFileUrlThrows(h)
    \/ \E h \in handlers : FileMessageSent(h)
    \/ \E h \in handlers : SubmitStart(h, PhoneEight, NoExplicit)
    \/ \E s \in submissions : SubmitReturns(s)
    \/ \E h \in handlers : \E reported \in BOOLEAN : GatewayReturns(h, reported)
    \/ \E h \in handlers : GatewayThrows(h)
    \/ \E h \in handlers : ReplySent(h)

SpecTelegram == Init /\ [][NextTelegram]_vars

\* One Telegram user who gives the number +7 999 123 45 67.
NextSeparators ==
    \/ ReceiveTelegramText("t1", "plus7")
    \/ \E a \in {PdfSmall, VideoSmall} : ReceiveTelegramFile("t1", a, NoText)
    \/ \E h \in handlers : FetchReturns(h)
    \/ \E h \in handlers : GetFileUrlThrows(h)
    \/ \E h \in handlers : FileMessageSent(h)
    \/ \E h \in handlers : SubmitStart(h, KeyPlus7, NoExplicit)
    \/ \E s \in submissions : SubmitReturns(s)
    \/ \E h \in handlers : \E reported \in BOOLEAN : GatewayReturns(h, reported)
    \/ \E h \in handlers : GatewayThrows(h)
    \/ \E h \in handlers : ReplySent(h)

SpecSeparators == Init /\ [][NextSeparators]_vars

\* One Telegram user, and tool calls with and without explicit files.
NextExplicit ==
    \/ ReceiveTelegramText("t1", "eight")
    \/ \E a \in {PdfSmall, VideoSmall} : ReceiveTelegramFile("t1", a, NoText)
    \/ \E h \in handlers : FetchReturns(h)
    \/ \E h \in handlers : FileMessageSent(h)
    \/ \E h \in handlers : \E e \in ExplicitInputs : SubmitStart(h, PhoneEight, e)
    \/ \E s \in submissions : SubmitReturns(s)
    \/ \E h \in handlers : \E reported \in BOOLEAN : GatewayReturns(h, reported)
    \/ \E h \in handlers : GatewayThrows(h)
    \/ \E h \in handlers : ReplySent(h)

SpecExplicit == Init /\ [][NextExplicit]_vars

\* Two Telegram users who give different numbers.
NextTwoUsers ==
    \/ ReceiveTelegramText("t1", "eight")
    \/ ReceiveTelegramFile("t1", PdfSmall, NoText)
    \/ \E a \in AttachmentsOf("t2"), c \in CaptionsOf("t2") : ReceiveTelegramFile("t2", a, c)
    \/ \E h \in handlers : FetchReturns(h)
    \/ \E h \in handlers : GetFileUrlThrows(h)
    \/ \E h \in handlers : FileMessageSent(h)
    \/ \E h \in handlers : \E p \in ToolPhonesOf(h.user) : SubmitStart(h, p, NoExplicit)
    \/ \E s \in submissions : SubmitReturns(s)
    \/ \E h \in handlers : \E reported \in BOOLEAN : GatewayReturns(h, reported)
    \/ \E h \in handlers : GatewayThrows(h)
    \/ \E h \in handlers : ReplySent(h)

SpecTwoUsers == Init /\ [][NextTwoUsers]_vars

\* A Telegram user and a WhatsApp user who send files, with and without a
\* caption, and an upload that may throw.
NextAdapters ==
    \/ \E f \in {<<PdfSmall, NoText>>, <<VideoLarge, "eight">>} :
          ReceiveTelegramFile("t1", f[1], f[2])
    \/ \E f \in {<<PdfSmall, NoText>>, <<VideoLarge, "eight">>} :
          ReceiveWhatsAppFile("w1", f[1], f[2])
    \/ \E h \in handlers : FetchReturns(h)
    \/ \E h \in handlers : \E credentials \in DriveCredentials :
          UploadThrows(h, [credentials |-> credentials, folder |-> TRUE,
                           download |-> TRUE, drive |-> TRUE])
    \/ \E h \in handlers : GetFileUrlThrows(h)
    \/ \E h \in handlers : FileMessageSent(h)
    \/ \E h \in handlers : \E reported \in BOOLEAN : GatewayReturns(h, reported)
    \/ \E h \in handlers : GatewayThrows(h)
    \/ \E h \in handlers : ReplySent(h)

SpecAdapters == Init /\ [][NextAdapters]_vars

\* One Telegram user in text turns, who writes again when the turn before is
\* over: every outcome of the downstream calls of execute, and every response
\* of the gateway.
NextReplies ==
    \/ handlers = {} /\ ReceiveTelegramText("t1", "eight")
    \/ \E h \in handlers : SubmitStart(h, PhoneEight, NoExplicit)
    \/ \E s \in submissions : \E outcome \in DownstreamOutcomes : SubmitEnds(s, outcome)
    \/ \E h \in handlers : \E response \in ResponsesTo(h) : GatewayResponds(h, response)
    \/ \E h \in handlers : GatewayThrows(h)
    \/ \E h \in handlers : ApologySent(h)
    \/ \E h \in handlers : ReplySent(h)

SpecReplies == Init /\ [][NextReplies]_vars

\* One Telegram user who sends a resume and then a text without a phone; the
\* agent has the phone from the thread, well formed or blank, and the reply
\* may fail to be sent.
ThreadPhones == {KeyPlus7, BlankPhone}

NextToolPhone ==
    \/ ReceiveTelegramFile("t1", PdfSmall, NoText)
    \/ ReceiveTelegramText("t1", "hello")
    \/ \E h \in handlers : FetchReturns(h)
    \/ \E h \in handlers : FileMessageSent(h)
    \/ \E h \in handlers : \E p \in ThreadPhones : SubmitStart(h, p, NoExplicit)
    \/ \E s \in submissions : SubmitReturns(s)
    \/ \E h \in handlers : \E reported \in BOOLEAN : GatewayReturns(h, reported)
    \/ \E h \in handlers : GatewayThrows(h)
    \/ \E h \in handlers : ReplySent(h)
    \/ \E h \in handlers : ReplyFails(h)

SpecToolPhone == Init /\ [][NextToolPhone]_vars

\* The upload pages of two Telegram users; t1 gives the number 89991234567
\* in turns that follow one another.
NextUpload ==
    \/ \E k \in Tokens : GenerateUploadLink(k)
    \/ \E k \in Tokens : TokenExpires(k)
    \/ \E k \in Tokens : GetUpload(k)
    \/ \E k \in Tokens : PostUpload(k)
    \/ \E r \in requests : ParseFails(r)
    \/ \E r \in requests : ParseDone(r)
    \/ \E r \in requests : DriveFails(r)
    \/ \E r \in requests : DriveReturns(r)
    \/ \E r \in requests : Notified(r)
    \/ handlers = {} /\ ReceiveTelegramText("t1", "eight")
    \/ \E h \in handlers : GatewayReturns(h, FALSE)
    \/ \E h \in handlers : ReplySent(h)

SpecUpload == Init /\ [][NextUpload]_vars

(***************************************************************************)
(* Properties                                                              *)
(***************************************************************************)

Pending(u) == userContexts[u].pendingFiles

BufferRefs(u) == {Pending(u)[i].fileId : i \in DOMAIN Pending(u)}

RefsOfType(pendingFiles, type) ==
    {pendingFiles[i].fileId : i \in {j \in DOMAIN pendingFiles : pendingFiles[j].type = type}}

RefsOfEntry(entry) == {entry.resumeFile, entry.introVideoFile} \ {Undefined}

IsBuffered(ref) == ref[1] = "event"

\* Handler h2 of the next state is calling agent.generate in this step.
EnteringGateway(h2) ==
    /\ h2 \in handlers'
    /\ h2.pc = "gateway"
    /\ \A h \in handlers : h.id = h2.id => h.pc # "gateway"

\* C1: a buffered file reference is given to createCandidateLead by at most
\* one submission for the same normalized phone.
BufferedFileHandedOverOnce ==
    \A k \in DOMAIN crmFiles : IsBuffered(k[2]) => crmFiles[k] <= 1

\* C2: a submission that reads the store after another one has read the same
\* key, with no storeFilesByPhone for that key in between, gets nothing; and
\* the entry is gone as soon as it has been read.
SecondReadGetsNothing ==
    /\ \A s \in submissions : s.afterConsume => s.storedFiles = NoEntry
    /\ \A k \in consumed : k \notin DOMAIN fileStoreByPhone

\* Two submissions of two gateway calls are in flight for one key: the one
\* that read first got the entry, the other nothing.
TwoReadsInFlight ==
    \E s1, s2 \in submissions :
        /\ s1.handler # s2.handler
        /\ normalizePhoneTool(s1.phone) = normalizePhoneTool(s2.phone)
        /\ ~s1.afterConsume
        /\ s1.storedFiles # NoEntry
        /\ s2.afterConsume
        /\ s2.storedFiles = NoEntry

\* C3: a publish never replaces or removes the resume or the video that the
\* store already holds for the phone.
PublishKeepsExistingFiles ==
    [][\A k \in DOMAIN fileStoreByPhone \cap DOMAIN fileStoreByPhone' :
          /\ fileStoreByPhone[k].resumeFile # Undefined
                => fileStoreByPhone'[k].resumeFile = fileStoreByPhone[k].resumeFile
          /\ fileStoreByPhone[k].introVideoFile # Undefined
                => fileStoreByPhone'[k].introVideoFile = fileStoreByPhone[k].introVideoFile
      ]_vars

\* C4: when a turn whose text holds a phone calls agent.generate and the
\* user's buffer holds a resume and a video, the store holds a resume and a
\* video of the buffer under the normalized phone, which for
\* "+7 999 123 45 67" is "+79991234567".
BothFilesStoredBeforeGateway ==
    [][\A h2 \in handlers' :
          LET phone == extractPhoneFromMessage(PromptOf(h2))
              pending == userContexts'[h2.user].pendingFiles
              entry == MapGet(fileStoreByPhone', normalizePhone(phone))
          IN  (/\ EnteringGateway(h2)
               /\ phone # NoPhone
               /\ RefsOfType(pending, "resume") # {}
               /\ RefsOfType(pending, "video") # {})
              => /\ entry.resumeFile \in RefsOfType(pending, "resume")
                 /\ entry.introVideoFile \in RefsOfType(pending, "video")
                 /\ h2.text = "plus7" => normalizePhone(phone) = KeyPlus7
      ]_vars

BothFilesStoredAtGateway ==
    \E h \in handlers :
        /\ h.pc = "gateway"
        /\ h.text = "plus7"
        /\ RefsOfType(Pending(h.user), "resume") # {}
        /\ RefsOfType(Pending(h.user), "video") # {}
        /\ KeyPlus7 \in DOMAIN fileStoreByPhone
        /\ fileStoreByPhone[KeyPlus7].resumeFile # Undefined
        /\ fileStoreByPhone[KeyPlus7].introVideoFile # Undefined

\* C5: a submission forwards, for the resume and for the video separately,
\* the explicit file when there is one and else the stored one, and the
\* store holds no entry for its phone once it has read it.
ExplicitPreferredAndStoreDrained ==
    [][/\ \A s \in submissions' \ submissions :
             LET key == normalizePhoneTool(s.phone)
                 stored == MapGet(fileStoreByPhone, key)
             IN  /\ s.finalResumeFile =
                        (IF s.data.resumeFile # Undefined
                         THEN s.data.resumeFile ELSE stored.resumeFile)
                 /\ s.finalIntroVideoFile =
                        (IF s.data.introVideoFile # Undefined
                         THEN s.data.introVideoFile ELSE stored.introVideoFile)
                 /\ key \notin DOMAIN fileStoreByPhone'
       /\ \A s \in submissions \ submissions' :
             \A f \in {s.finalResumeFile, s.finalIntroVideoFile} :
                 IsBuffered(f) => <<normalizePhoneTool(s.phone), f>> \in DOMAIN crmFiles'
      ]_vars

\* A submission with an explicit resume took it although a resume was
\* stored, took the stored video, and left no entry.
ExplicitResumeStoredVideo ==
    \E s \in submissions :
        /\ s.data.resumeFile # Undefined
        /\ s.storedFiles.resumeFile # Undefined
        /\ s.finalResumeFile = s.data.resumeFile
        /\ s.data.introVideoFile = Undefined
        /\ s.finalIntroVideoFile = s.storedFiles.introVideoFile
        /\ s.finalIntroVideoFile # Undefined
        /\ normalizePhoneTool(s.phone) \notin DOMAIN fileStoreByPhone

\* C6: no attachment larger than MAX_DOWNLOAD_SIZE_BYTES is in a pending-file
\* buffer, on Telegram or on WhatsApp.
OversizedNeverBuffered ==
    \A u \in Users : \A ref \in BufferRefs(u) :
        attachments[ref[2]].bytes <= MAX_DOWNLOAD_SIZE_BYTES

\* The keys that the phones a user gives normalize to.
KeysGivenBy ==
    [u \in Users |-> {KeyFor(p, u) : p \in PhonesGivenBy(u) \ {NoPhone}}]

\* C7: a buffer holds only files of its user's own events, and a store
\* entry holds only files of the buffers of the users who give its key: for
\* two users whose phones normalize to different keys, the entry under the
\* key of one holds nothing of the other.
NoCrossContamination ==
    /\ \A u \in Users : \A ref \in BufferRefs(u) : attachments[ref[2]].user = u
    /\ \A k \in DOMAIN fileStoreByPhone :
          RefsOfEntry(fileStoreByPhone[k])
              \subseteq UNION {BufferRefs(u) : u \in {v \in Users : k \in KeysGivenBy[v]}}

BothUsersPublished ==
    /\ KeysGivenBy["t1"] \cap KeysGivenBy["t2"] = {}
    /\ KeyEight \in DOMAIN fileStoreByPhone
    /\ KeyUS \in DOMAIN fileStoreByPhone
    /\ BufferRefs("t1") # {}
    /\ BufferRefs("t2") # {}

\* C8: a buffered file reference is in the store under at most one key.
FileUnderOneKey ==
    \A k1, k2 \in DOMAIN fileStoreByPhone :
        k1 # k2 => RefsOfEntry(fileStoreByPhone[k1]) \cap RefsOfEntry(fileStoreByPhone[k2]) = {}

\* The turn with the text "My number is 89991234567" calls agent.generate
\* with a resume in the buffer, and the store holds that resume under key.
EightPublishesUnder(key) ==
    \A h2 \in handlers' :
        (/\ EnteringGateway(h2)
         /\ h2.att = NoAttachment
         /\ h2.text = "eight"
         /\ RefsOfType(userContexts'[h2.user].pendingFiles, "resume") # {})
        => MapGet(fileStoreByPhone', key).resumeFile
              \in RefsOfType(userContexts'[h2.user].pendingFiles, "resume")

\* A submission with this phone and no explicit resume forwards the resume
\* that the store holds under key.
SubmissionForwards(phone, key) ==
    \A s \in submissions' \ submissions :
        (/\ s.phone = phone
         /\ s.data.resumeFile = Undefined
         /\ key \in DOMAIN fileStoreByPhone
         /\ fileStoreByPhone[key].resumeFile # Undefined)
        => s.finalResumeFile = fileStoreByPhone[key].resumeFile

\* C9 as stated: after a PDF and the text "My number is 89991234567" the
\* resume is in the store under "+79991234567", and a submission with
\* "+79991234567" and no explicit resume forwards it.
ResumeOfEightUnderPlus7 ==
    [][EightPublishesUnder(KeyPlus7) /\ SubmissionForwards(KeyPlus7, KeyPlus7)]_vars

\* C9: after a PDF and the text "My number is 89991234567" the resume is in
\* the store under "89991234567", and a submission with "89991234567" and no
\* explicit resume forwards it.
ResumeOfEightUnderEight ==
    [][EightPublishesUnder(KeyEight) /\ SubmissionForwards(PhoneEight, KeyEight)]_vars

ResumeOfEightForwarded ==
    \E s \in submissions : \E h \in handlers :
        /\ h.id = s.handler
        /\ h.text = "eight"
        /\ s.phone = PhoneEight
        /\ s.data.resumeFile = Undefined
        /\ IsBuffered(s.finalResumeFile)
        /\ s.storedFiles.introVideoFile = Undefined

\* C10: normalizePhone(normalizePhone(x)) = normalizePhone(x) for every
\* variant and every input string x.
NormalizeIdempotent == normStage = 2 => normTwice = normOnce

\* C11: two phone strings that differ only by an inserted separator
\* (whitespace, hyphen, parenthesis, period), or by a leading 00 written for
\* a leading +, normalize to the same string.
FormattingIgnored == normStage = 3 => normOnce = normOtherOnce

DoubleZeroPairNormalized ==
    /\ normStage = 3
    /\ StartsWith(normInput, <<"+", "7">>)
    /\ StartsWith(normOther, <<"0", "0", "7">>)
    /\ normOnce = normInput

SeparatorPairNormalized ==
    /\ normStage = 3
    /\ Len(normOther) = Len(normInput) + 1
    /\ normOnce # <<>>
    /\ normOnce # normOther

\* ref is the earliest reference of the type in the buffer, or Undefined if
\* the buffer holds none of the type.
IsEarliestOfType(pendingFiles, type, ref) ==
    IF ref = Undefined
    THEN \A i \in 1..Len(pendingFiles) : pendingFiles[i].type # type
    ELSE \E i \in 1..Len(pendingFiles) :
            /\ pendingFiles[i].type = type
            /\ pendingFiles[i].fileId = ref
            /\ \A j \in 1..(i - 1) : pendingFiles[j].type # type

\* C12: an entry that a step writes into the file store holds, as its one
\* resume and its one video, the earliest reference of each kind in the
\* pending-file buffer of a session at that moment, however many later
\* references of the kind the buffer holds.
EntryHoldsEarliestOfEachKind ==
    [][\A k \in DOMAIN fileStoreByPhone' :
          fileStoreByPhone'[k] # MapGet(fileStoreByPhone, k)
              => \E u \in Users :
                    /\ IsEarliestOfType(userContexts'[u].pendingFiles, "resume",
                                        fileStoreByPhone'[k].resumeFile)
                    /\ IsEarliestOfType(userContexts'[u].pendingFiles, "video",
                                        fileStoreByPhone'[k].introVideoFile)]_vars

\* The WhatsApp session has buffered two resumes and then a video, and the
\* caption of the video has published the first resume with the video.
EarlierOfTwoResumesStored ==
    /\ Len(Pending("w1")) = 3
    /\ Pending("w1")[1].type = "resume"
    /\ Pending("w1")[2].type = "resume"
    /\ Pending("w1")[3].type = "video"
    /\ KeyEight \in DOMAIN fileStoreByPhone
    /\ fileStoreByPhone[KeyEight].resumeFile = Pending("w1")[1].fileId
    /\ fileStoreByPhone[KeyEight].introVideoFile = Pending("w1")[3].fileId

\* C13: the request of every inbound event was sent exactly one response:
\* while its handler runs, after it ended, and after it failed.
AcknowledgedOnce ==
    /\ \A e \in 1..(nextEvent - 1) : e \in DOMAIN acks /\ acks[e] = 1
    /\ \A h \in handlers : HeadersSent(acks, h.id)

\* The handler of a WhatsApp file event has ended without buffering the
\* file: its upload threw, and the route handler's catch may have run.
WhatsAppHandlerFailed ==
    \E e \in DOMAIN attachments :
        /\ attachments[e].user \in WhatsAppUsers
        /\ \A h \in handlers : h.id # e
        /\ <<"event", e>> \notin BufferRefs(attachments[e].user)
        /\ acks[e] = 1

\* C17: when the stage of a handler that awaits getFileUrl and
\* uploadFileFromUrl ends, and not by a failure of getFileUrl, the
\* attachment is in the pending-file buffer of its user.
AcceptedAttachmentBuffered ==
    [][\A h \in handlers :
          (/\ h.pc = "fetch"
           /\ h \notin handlers'
           /\ At(h, "urlFailMsg") \notin handlers')
          => <<"event", h.id>> \in
                {userContexts'[h.user].pendingFiles[i].fileId :
                    i \in 1..Len(userContexts'[h.user].pendingFiles)}]_vars

\* C20: the handler of a Telegram event with an oversized attachment never
\* calls the agent gateway and never sends a reply of the agent.
OversizedStopsProcessing ==
    \A h \in handlers :
        (h.user \in TelegramUsers /\ h.att.bytes > MAX_DOWNLOAD_SIZE_BYTES)
            => h.pc \notin {"gateway", "reply", "apology"}

ReplyNeverEmpty ==
    \A h \in handlers :
        h.pc \in {"reply", "apology"}
            => /\ Len(h.reply) >= 1
               /\ \A i \in 1..Len(h.reply) : Len(h.reply[i]) > 0

\* The response had no text anywhere and no tool result: the fallback is sent.
FallbackReplySent ==
    \E h \in handlers : h.pc = "reply" /\ h.reply = <<UnableMessage>>

\* C16: the reply of an event is never sent while the turn of an earlier
\* event of the same user still waits for the gateway, its own reply unsent.
RepliesInEventOrder ==
    [][\A h \in handlers :
          (h.pc = "reply" /\ h \notin handlers')
              => ~\E g \in handlers :
                     g.user = h.user /\ g.id < h.id /\ g.pc = "gateway"]_vars

\* C18: the result of a submission that ends has the resume reminder exactly
\* when no resume is attached, and the video reminder exactly when no video
\* is, a file taken from the store counting as attached.
RemindersMatchAttachments ==
    [][\A s \in submissions :
          s \notin submissions'
              => /\ ExecuteResult(s.data).resumeReminder
                        = (s.finalResumeFile = Undefined)
                 /\ ExecuteResult(s.data).introVideoReminder
                        = (s.finalIntroVideoFile = Undefined)]_vars

\* C19: the candidates table holds at most one row per normalized phone.
OneRecordPerPhone ==
    \A phone \in DOMAIN candidates : candidates[phone] <= 1

\* C21: when the handling of a turn ends whose gateway call returned a tool
\* call with a phone, and the session's buffer holds a file, the file store
\* holds an entry under that phone normalized, also when the reply was not
\* sent.
ToolPhonePublished ==
    [][\A h \in handlers :
          (/\ h.pc = "reply"
           /\ h \notin handlers'
           /\ h.respPhone # NoPhone
           /\ userContexts[h.user].pendingFiles # <<>>)
              => normalizePhone(h.respPhone) \in DOMAIN fileStoreByPhone']_vars

GatewayFailureContained ==
    [][\A h \in handlers :
          (h.pc = "gateway" /\ ~\E g \in handlers' : g.id = h.id)
              => /\ userContexts' = userContexts
                 /\ fileStoreByPhone' = fileStoreByPhone
                 /\ h.id \notin rejected']_vars

\* text is the chunks in order, each followed by the whitespace left out at
\* its break point, and then remaining; if trailing, whitespace at the end
\* of the text may be left out as well.
RECURSIVE Rebuilds(_, _, _, _)
Rebuilds(text, chunks, remaining, trailing) ==
    IF chunks = <<>>
    THEN text = remaining
    ELSE /\ StartsWith(text, Head(chunks))
         /\ LET rest == TrimStart(DropFirst(text, Len(Head(chunks))))
            IN  IF Len(chunks) = 1
                THEN IF trailing THEN TrimEnd(rest) = remaining ELSE rest = remaining
                ELSE Rebuilds(rest, Tail(chunks), remaining, trailing)

ChunksWithinLimit ==
    \A i \in 1..Len(sendChunks) : Len(sendChunks[i]) <= MAX_LENGTH

\* A chunk is passed to the transport only when no send is awaited.
OneSendAtATime == sendChunks' # sendChunks => sendPc # "send"

\* C24 as stated: every chunk has at most MAX_LENGTH characters, no chunk is
\* sent while a send is awaited, and the chunks sent so far, with the text
\* that remains, rebuild the text with only the whitespace at the break
\* points left out.
ChunksRebuildText ==
    /\ [](ChunksWithinLimit /\ Rebuilds(sendText, sendChunks, sendRemaining, FALSE))
    /\ [][OneSendAtATime]_vars

\* C24 amended: the same, where the whitespace left out may also be the
\* whitespace at the end of a text that was split.
ChunksRebuildTextButTrailing ==
    /\ [](ChunksWithinLimit /\ Rebuilds(sendText, sendChunks, sendRemaining, TRUE))
    /\ [][OneSendAtATime]_vars

\* A text was split at a paragraph break and sent whole.
SplitAtParagraph ==
    /\ sendPc = "done"
    /\ Len(sendChunks) = 2
    /\ Len(sendChunks[1]) + 2 + Len(sendChunks[2]) = Len(sendText)

\* C30: every iteration of the loop shortens remaining and passes the
\* transport a chunk that is not the empty string.
EveryChunkShortens ==
    [][sendChunks' # sendChunks
          => /\ Len(sendRemaining') < Len(sendRemaining)
             /\ Len(sendChunks'[Len(sendChunks')]) > 0]_vars

\* C25: a call of cleanupOldContexts removes the sessions of its module last
\* active more than maxAgeMs ago, and those only; every other session keeps
\* its buffer, and the file store keeps every entry.
CleanupRemovesExactlyOld ==
    [][lastCleanup' # NoCleanup
          => /\ \A u \in Users :
                  IF /\ u \in lastCleanup'.users
                     /\ userContexts[u].exists
                     /\ now - lastMessageTime[u] > lastCleanup'.maxAgeMs
                  THEN ~userContexts'[u].exists
                  ELSE userContexts'[u] = userContexts[u]
             /\ fileStoreByPhone' = fileStoreByPhone]_vars

\* A cleanup removed one session and kept another of the same module, whose
\* buffer holds a file.
OldRemovedYoungKept ==
    /\ lastCleanup.users = TelegramUsers
    /\ "t1" \in lastCleanup.removed
    /\ userContexts["t2"].pendingFiles # <<>>
    /\ now - lastMessageTime["t2"] = lastCleanup.maxAgeMs
    /\ fileStoreByPhone # EmptyMap

\* The uploads of the token in webUploadsByUserId.
UploadsOf(token) ==
    {i \in 1..Len(webUploadsByUserId[TokenUser(token)]) :
        answers[webUploadsByUserId[TokenUser(token)][i].fileUrl[2]].token = token}

\* C26: a token yields at most one entry of webUploadsByUserId, and a GET or
\* POST that arrives after an upload of its token was stored is answered 410.
TokenUsedOnce ==
    /\ \A k \in Tokens : Cardinality(UploadsOf(k)) <= 1
    /\ \A id \in DOMAIN answers : answers[id].late => answers[id].status = 410

\* C27: a text turn of a Telegram user that gives the phone, made when
\* webUploadsByUserId holds a video of the user, calls agent.generate with a
\* video published in the file store.
WebUploadPublished ==
    [][\A h2 \in handlers' :
          (/\ EnteringGateway(h2)
           /\ h2.text = "eight"
           /\ webUploadsByUserId[h2.user] # <<>>)
          => \E key \in DOMAIN fileStoreByPhone' :
                 fileStoreByPhone'[key].introVideoFile # Undefined]_vars

\* C28: the file store holds no entry under the empty key.
NoEntryUnderEmptyKey == <<>> \notin DOMAIN fileStoreByPhone

\* C29: when a text turn that gives the phone calls agent.generate, the file
\* of the user's only file event, accepted before it and still being handled,
\* is in the file store under the phone.
EarlierFilePublished ==
    [][\A h2 \in handlers' :
          (EnteringGateway(h2) /\ h2.text = "eight")
          => \A h \in handlers :
                 (/\ h.user = h2.user
                  /\ h.id < h2.id
                  /\ h.att # NoAttachment
                  /\ h.att.bytes <= MAX_DOWNLOAD_SIZE_BYTES
                  /\ DOMAIN attachments = {h.id})
                 => <<"event", h.id>> \in RefsOfEntry(MapGet(fileStoreByPhone', KeyEight))]_vars


=============================================================================
